---- MODULE Spec2Model ----
(***************************************************************************)
(* Model of the card-transaction platform: the in-memory stores of         *)
(* src/src/db/index.ts, the rule chain processTransaction                  *)
(* (src/unnamed/part_000), the orchestrator handleTransactionWebhook       *)
(* (src/src/services/webhookHandler.ts), the webhook route with its        *)
(* payload validation (src/src/server.ts, src/src/utils/helpers.ts) and    *)
(* the statement generation (src/unnamed/part_000).                        *)
(*                                                                         *)
(* Every submission is an async call.  An async db function runs its body  *)
(* synchronously when it is called and the caller is suspended at the      *)
(* `await`; so one action is the code from one resumption up to and        *)
(* including the next db call, and pc names the await the submission is    *)
(* suspended at.  Submissions interleave at these await points only.       *)
(***************************************************************************)
EXTENDS Integers, FiniteSets, Sequences, TLC

\* ---------------------------------------------------------------- bounds
NumSubs == 2        \* submissions (calls of handleTransactionWebhook)
MaxAmount == 2      \* payload amounts are 1..MaxAmount
MaxTime == 1        \* the clock read by `new Date()` runs over 0..MaxTime
CreditLimit == 2    \* the credit limit the account starts with
InitialBalance == 0 \* the balance the account starts with
MaxUpdates == 1     \* calls of cards.update and accounts.update
MaxStatements == 2  \* statements kept in the statements store
Window == 1         \* statement balances are drawn within Window of each threshold

Procs == 1..NumSubs
TxIds == {"T1", "T2"}
CardIds == {"C1", "C2", "C3"}
AccountIds == {"A1", "A2"}
Amounts == 1..MaxAmount
CreditLimits == {CreditLimit - 1, CreditLimit}

\* ------------------------------------------------------------------ types
AccountStatus == {"active", "frozen", "closed"}
CardStatus == {"active", "frozen", "cancelled"}
DenialReason == {"card_not_found", "card_not_active", "account_not_found",
                 "account_not_active", "insufficient_credit", "exceeds_card_limit"}

\* null (a lookup that found nothing) and undefined (an absent optional field)
Null == [null |-> TRUE]
Undefined == [undefined |-> TRUE]
NoSpendingLimit == -1
NoReason == "undefined"
UnknownAccount == "unknown"

Payloads == [id : TxIds, card_id : CardIds, amount : Amounts]
NoPayload == [id |-> "T1", card_id |-> "C1", amount |-> 1]

VARIABLES
    accounts,       \* Map<string, Account>: AccountIds -> Account or Null
    cards,          \* Map<string, Card>: CardIds -> Card or Null
    transactions,   \* Map<string, Transaction>: TxIds -> Transaction or Null
    now,            \* the system clock
    pc,             \* per submission: the await it is suspended at
    payload,        \* per submission: the argument of handleTransactionWebhook
    ptExisting,     \* processTransaction's local existingTransaction
    ptCard,         \* processTransaction's local card
    ptAccount,      \* processTransaction's local account (an object reference)
    result,         \* the handler's local result
    hExisting,      \* the handler's local existingTransaction
    hCard,          \* the handler's local card
    response,       \* what the handler returned
    updates,        \* number of cards.update and accounts.update calls so far
    statements,     \* Statement[]: the statements in creation order
    gen             \* the call of generateStatementForAccount: its await and locals

stores == <<accounts, cards, transactions>>
locals == <<payload, ptExisting, ptCard, ptAccount, result, hExisting, hCard, response>>
billing == <<statements, gen>>
vars == <<accounts, cards, transactions, now, pc, payload, ptExisting, ptCard,
          ptAccount, result, hExisting, hCard, response, updates, statements, gen>>

\* ------------------------------------------------------- object references
\* accounts.updateBalance mutates the stored object in place and
\* accounts.update stores a fresh copy, so a held Account reference either
\* still is the stored object (live) or is an object no longer in the map.
NullRef == [null |-> TRUE]
LiveRef(id) == [id |-> id, live |-> TRUE]
StaleRef(id, obj) == [id |-> id, live |-> FALSE, obj |-> obj]

Deref(ref) == IF ref.live THEN accounts[ref.id] ELSE ref.obj

\* ------------------------------------------------------------------- db
AccountsFindById(id) == IF accounts[id] = Null THEN NullRef ELSE LiveRef(id)

CardsFindById(id) == cards[id]

TransactionsFindById(id) == transactions[id]

TransactionsCreate(tx_id, tx) == [transactions EXCEPT ![tx_id] = tx]

\* mutant: the amount is added to every account
AccountsUpdateBalanceAll(id, amountToAdd) ==
    [a \in AccountIds |->
        IF accounts[a] = Null THEN accounts[a]
        ELSE [accounts[a] EXCEPT !.currentBalance = @ + amountToAdd]]

AccountsUpdateBalance(id, amountToAdd) ==
    IF id \notin AccountIds \/ accounts[id] = Null
    THEN accounts
    ELSE [accounts EXCEPT ![id].currentBalance = @ + amountToAdd]

\* ------------------------------------------------- processTransaction rules
\* mutant: a denial that carries no reason
DenyWithoutReason(reason) == [approved |-> FALSE, reason |-> NoReason, card |-> Undefined]

Deny(reason) == [approved |-> FALSE, reason |-> reason, card |-> Undefined]

Approve(card) == [approved |-> TRUE, reason |-> NoReason, card |-> card]

\* mutant: a known identifier is answered "approved" whatever was recorded
ReplayAlwaysApproved(existing) ==
    [approved |-> TRUE, reason |-> existing.denialReason, card |-> Undefined]

Replay(existing) ==
    [approved |-> existing.status = "approved",
     reason |-> existing.denialReason,
     card |-> Undefined]

NoResult == Deny(NoReason)

\* mutant: `>=` for `>`
CreditExceededAtLimit(currentBalance, amount, creditLimit) ==
    currentBalance + amount >= creditLimit

CreditExceeded(currentBalance, amount, creditLimit) ==
    currentBalance + amount > creditLimit

\* `card.spendingLimit && amount > card.spendingLimit`: undefined and 0 are falsy
CardLimitExceeded(spendingLimit, amount) ==
    /\ spendingLimit # NoSpendingLimit
    /\ spendingLimit # 0
    /\ amount > spendingLimit

\* ------------------------------------------------------------- the handler
NewTransaction(p, card) ==
    [cardId |-> payload[p].card_id,
     accountId |-> IF card = Null THEN UnknownAccount ELSE card.accountId,
     amount |-> payload[p].amount,
     status |-> IF result[p].approved THEN "approved" ELSE "denied",
     denialReason |-> result[p].reason,
     createdAt |-> now]

\* mutant: the balance is updated whatever the verdict
ShouldUpdateBalanceAnyVerdict(res, card) == card # Null

ShouldUpdateBalance(res, card) == res.approved /\ card # Null

\* the response the caller of handleTransactionWebhook got for identifier id
Returned(id, approved) == [returned |-> TRUE, id |-> id, approved |-> approved]
NotReturned == [returned |-> FALSE]

\* `return { approved: result.approved }`: the call is over and its argument
\* and locals are gone
Return(p) ==
    /\ response' = [response EXCEPT ![p] = Returned(payload[p].id, result[p].approved)]
    /\ pc' = [pc EXCEPT ![p] = "done"]
    /\ payload' = [payload EXCEPT ![p] = NoPayload]
    /\ ptExisting' = [ptExisting EXCEPT ![p] = Null]
    /\ ptCard' = [ptCard EXCEPT ![p] = Null]
    /\ ptAccount' = [ptAccount EXCEPT ![p] = NullRef]
    /\ result' = [result EXCEPT ![p] = NoResult]
    /\ hExisting' = [hExisting EXCEPT ![p] = Null]
    /\ hCard' = [hCard EXCEPT ![p] = Null]

\* no call of generateStatementForAccount is running
NoCall == [pc |-> "idle"]

Init ==
    /\ accounts = [a \in AccountIds |->
                     IF a = "A1"
                     THEN [creditLimit |-> CreditLimit, currentBalance |-> InitialBalance,
                           status |-> "active"]
                     ELSE Null]
    /\ cards = [c \in CardIds |->
                  IF c = "C1"
                  THEN [accountId |-> "A1", status |-> "active",
                        spendingLimit |-> NoSpendingLimit]
                  ELSE IF c = "C2"
                  THEN [accountId |-> "A2", status |-> "active",
                        spendingLimit |-> NoSpendingLimit]
                  ELSE Null]
    /\ transactions = [t \in TxIds |-> Null]
    /\ now = 0
    /\ pc = [p \in Procs |-> "idle"]
    /\ payload = [p \in Procs |-> NoPayload]
    /\ ptExisting = [p \in Procs |-> Null]
    /\ ptCard = [p \in Procs |-> Null]
    /\ ptAccount = [p \in Procs |-> NullRef]
    /\ result = [p \in Procs |-> NoResult]
    /\ hExisting = [p \in Procs |-> Null]
    /\ hCard = [p \in Procs |-> Null]
    /\ response = [p \in Procs |-> NotReturned]
    /\ updates = 0
    /\ statements = <<>>
    /\ gen = NoCall

\* handleTransactionWebhook(pl) is called: processTransaction starts and
\* suspends at `await db.transactions.findById(payload.id)`
Submit(p, pl) ==
    /\ pc[p] = "idle"
    /\ UNCHANGED billing
    /\ payload' = [payload EXCEPT ![p] = pl]
    /\ ptExisting' = [ptExisting EXCEPT ![p] = TransactionsFindById(pl.id)]
    /\ pc' = [pc EXCEPT ![p] = "pt_find_tx"]
    /\ UNCHANGED <<stores, now, ptCard, ptAccount, result, hExisting, hCard, response, updates>>

\* processTransaction resumes with existingTransaction
PTAfterFindTx(p) ==
    /\ pc[p] = "pt_find_tx"
    /\ UNCHANGED billing
    /\ IF ptExisting[p] # Null
       THEN /\ result' = [result EXCEPT ![p] = Replay(ptExisting[p])]
            /\ pc' = [pc EXCEPT ![p] = "h_process"]
            /\ UNCHANGED ptCard
       ELSE /\ ptCard' = [ptCard EXCEPT ![p] = CardsFindById(payload[p].card_id)]
            /\ pc' = [pc EXCEPT ![p] = "pt_find_card"]
            /\ UNCHANGED result
    /\ UNCHANGED <<stores, now, payload, ptExisting, ptAccount, hExisting, hCard, response, updates>>

\* processTransaction resumes with card
PTAfterFindCard(p) ==
    /\ pc[p] = "pt_find_card"
    /\ UNCHANGED billing
    /\ IF ptCard[p] = Null
       THEN /\ result' = [result EXCEPT ![p] = Deny("card_not_found")]
            /\ pc' = [pc EXCEPT ![p] = "h_process"]
            /\ UNCHANGED ptAccount
       ELSE IF ptCard[p].status # "active"
       THEN /\ result' = [result EXCEPT ![p] = Deny("card_not_active")]
            /\ pc' = [pc EXCEPT ![p] = "h_process"]
            /\ UNCHANGED ptAccount
       ELSE /\ ptAccount' = [ptAccount EXCEPT ![p] = AccountsFindById(ptCard[p].accountId)]
            /\ pc' = [pc EXCEPT ![p] = "pt_find_account"]
            /\ UNCHANGED result
    /\ UNCHANGED <<stores, now, payload, ptExisting, ptCard, hExisting, hCard, response, updates>>

\* processTransaction resumes with account and runs rules 4..7
CheckAccount(p, account) ==
    IF account.status # "active"
    THEN Deny("account_not_active")
    ELSE IF CreditExceeded(account.currentBalance, payload[p].amount, account.creditLimit)
    THEN Deny("insufficient_credit")
    ELSE IF CardLimitExceeded(ptCard[p].spendingLimit, payload[p].amount)
    THEN Deny("exceeds_card_limit")
    ELSE Approve(ptCard[p])

\* mutant: the engine reserves the amount on the account when it approves
PTAfterFindAccountReserving(p) ==
    /\ pc[p] = "pt_find_account"
    /\ UNCHANGED billing
    /\ result' = [result EXCEPT ![p] =
                    IF ptAccount[p] = NullRef
                    THEN Deny("account_not_found")
                    ELSE CheckAccount(p, Deref(ptAccount[p]))]
    /\ accounts' = IF result'[p].approved
                   THEN AccountsUpdateBalance(ptCard[p].accountId, payload[p].amount)
                   ELSE accounts
    /\ pc' = [pc EXCEPT ![p] = "h_process"]
    /\ UNCHANGED <<cards, transactions, now, payload, ptExisting, ptCard, ptAccount, hExisting,
                   hCard, response, updates>>

PTAfterFindAccount(p) ==
    /\ pc[p] = "pt_find_account"
    /\ UNCHANGED billing
    /\ result' = [result EXCEPT ![p] =
                    IF ptAccount[p] = NullRef
                    THEN Deny("account_not_found")
                    ELSE CheckAccount(p, Deref(ptAccount[p]))]
    /\ pc' = [pc EXCEPT ![p] = "h_process"]
    /\ UNCHANGED <<stores, now, payload, ptExisting, ptCard, ptAccount, hExisting, hCard, response, updates>>

\* the handler resumes with result and suspends at
\* `await db.transactions.findById(payload.id)`
HAfterProcess(p) ==
    /\ pc[p] = "h_process"
    /\ UNCHANGED billing
    /\ hExisting' = [hExisting EXCEPT ![p] = TransactionsFindById(payload[p].id)]
    /\ pc' = [pc EXCEPT ![p] = "h_find_tx"]
    /\ UNCHANGED <<stores, now, payload, ptExisting, ptCard, ptAccount, result, hCard,
                   response, updates>>

\* the handler resumes with existingTransaction
HAfterFindTx(p) ==
    /\ pc[p] = "h_find_tx"
    /\ UNCHANGED billing
    /\ IF hExisting[p] # Null
       THEN /\ Return(p)
            /\ UNCHANGED transactions
       ELSE IF result[p].card # Undefined
       THEN /\ hCard' = [hCard EXCEPT ![p] = result[p].card]
            /\ transactions' = TransactionsCreate(payload[p].id, NewTransaction(p, result[p].card))
            /\ pc' = [pc EXCEPT ![p] = "h_create"]
            /\ UNCHANGED <<payload, ptExisting, ptCard, ptAccount, result, hExisting,
                           response>>
       ELSE /\ hCard' = [hCard EXCEPT ![p] = CardsFindById(payload[p].card_id)]
            /\ pc' = [pc EXCEPT ![p] = "h_find_card"]
            /\ UNCHANGED <<transactions, payload, ptExisting, ptCard, ptAccount, result,
                           hExisting, response>>
    /\ UNCHANGED <<accounts, cards, now, updates>>

\* the handler resumes with the card it looked up and creates the record
HAfterFindCard(p) ==
    /\ pc[p] = "h_find_card"
    /\ UNCHANGED billing
    /\ transactions' = TransactionsCreate(payload[p].id, NewTransaction(p, hCard[p]))
    /\ pc' = [pc EXCEPT ![p] = "h_create"]
    /\ UNCHANGED <<accounts, cards, now, locals, updates>>

\* the handler resumes after db.transactions.create
HAfterCreate(p) ==
    /\ pc[p] = "h_create"
    /\ UNCHANGED billing
    /\ IF ShouldUpdateBalance(result[p], hCard[p])
       THEN /\ accounts' = AccountsUpdateBalance(hCard[p].accountId, payload[p].amount)
            /\ pc' = [pc EXCEPT ![p] = "h_update"]
            /\ UNCHANGED <<payload, ptExisting, ptCard, ptAccount, result, hExisting,
                           hCard, response>>
       ELSE /\ Return(p)
            /\ UNCHANGED accounts
    /\ UNCHANGED <<cards, transactions, now, updates>>

\* the handler resumes after db.accounts.updateBalance and returns
HAfterUpdate(p) ==
    /\ pc[p] = "h_update"
    /\ UNCHANGED billing
    /\ Return(p)
    /\ UNCHANGED <<stores, now, updates>>

\* the clock advances
Tick ==
    /\ now < MaxTime
    /\ UNCHANGED billing
    /\ now' = now + 1
    /\ UNCHANGED <<stores, pc, locals, updates>>

\* { ...object, ...updates }
Merge(object, partial) ==
    [f \in DOMAIN object |-> IF f \in DOMAIN partial THEN partial[f] ELSE object[f]]

SpendingLimits == {NoSpendingLimit, 0, 1}

CardUpdates == [status : CardStatus] \cup [spendingLimit : SpendingLimits]

AccountUpdates == [status : AccountStatus] \cup [creditLimit : CreditLimits]

\* db.cards.update(id, partial) stores a fresh copy of the card
CardsUpdate(id, partial) ==
    /\ updates < MaxUpdates
    /\ UNCHANGED billing
    /\ cards[id] # Null
    /\ cards' = [cards EXCEPT ![id] = Merge(@, partial)]
    /\ updates' = updates + 1
    /\ UNCHANGED <<accounts, transactions, now, pc, locals>>

\* db.accounts.update(id, partial) stores a fresh copy of the account; the
\* references held by suspended submissions keep the replaced object
AccountsUpdate(id, partial) ==
    /\ updates < MaxUpdates
    /\ UNCHANGED billing
    /\ accounts[id] # Null
    /\ accounts' = [accounts EXCEPT ![id] = Merge(@, partial)]
    /\ ptAccount' = [p \in Procs |->
                       IF ptAccount[p] = LiveRef(id)
                       THEN StaleRef(id, accounts[id])
                       ELSE ptAccount[p]]
    /\ updates' = updates + 1
    /\ UNCHANGED <<cards, transactions, now, pc, payload, ptExisting, ptCard, result,
                   hExisting, hCard, response>>

Step(p) ==
    \/ PTAfterFindTx(p)
    \/ PTAfterFindCard(p)
    \/ PTAfterFindAccount(p)
    \/ HAfterProcess(p)
    \/ HAfterFindTx(p)
    \/ HAfterFindCard(p)
    \/ HAfterCreate(p)
    \/ HAfterUpdate(p)

\* concurrent deliveries of the events T1 and T2, both charging MaxAmount to
\* card C1: two submissions of one identifier carry the same payload
ConcurrentPayloads == {pl \in Payloads : pl.card_id = "C1" /\ pl.amount = MaxAmount}

Next ==
    \/ \E p \in Procs : \E pl \in ConcurrentPayloads : Submit(p, pl)
    \/ \E p \in Procs : Step(p)
    \/ Tick

Spec == Init /\ [][Next]_vars

\* submissions one after the other (submission p is made when submissions
\* 1..p-1 have returned), with the cards and accounts being updated at any time
SubmitNext(p, pl) ==
    /\ \A q \in Procs : q < p => pc[q] = "done"
    /\ Submit(p, pl)

NextSeq ==
    \/ \E p \in Procs : \E pl \in Payloads : SubmitNext(p, pl)
    \/ \E p \in Procs : Step(p)
    \/ \E c \in CardIds : \E partial \in CardUpdates : CardsUpdate(c, partial)
    \/ \E a \in AccountIds : \E partial \in AccountUpdates : AccountsUpdate(a, partial)

SpecSeq == Init /\ [][NextSeq]_vars

\* ------------------------------------------------------------ vocabulary
InFlight(p) == pc[p] \notin {"idle", "done"}

NoneInFlight == \A p \in Procs : ~InFlight(p)

\* the identifier of a submission that was made
SubId(p) == IF pc[p] = "done" THEN response[p].id ELSE payload[p].id

\* p takes a step
Moves(p) == pc'[p] # pc[p]

\* p's step ends the rule evaluation of processTransaction
Evaluates(p) == pc[p] \in {"pt_find_card", "pt_find_account"} /\ pc'[p] = "h_process"

\* p's step writes the Transaction record
Creates(p) == pc[p] \in {"h_find_tx", "h_find_card"} /\ pc'[p] = "h_create"

ApprovedOn(a) ==
    {t \in TxIds : /\ transactions[t] # Null
                   /\ transactions[t].status = "approved"
                   /\ transactions[t].accountId = a}

RECURSIVE SumAmounts(_)
SumAmounts(S) ==
    IF S = {} THEN 0
    ELSE LET t == CHOOSE x \in S : TRUE
         IN transactions[t].amount + SumAmounts(S \ {t})

\* ------------------------------------------------------------------- C1
\* C1: once all submissions have returned, a record exists for every
\* submitted identifier and every response's `approved` equals
\* (record.status = approved).
C1_ResponsesEqualRecord ==
    NoneInFlight =>
        \A p \in Procs :
            pc[p] = "done" =>
                /\ transactions[response[p].id] # Null
                /\ response[p].approved = (transactions[response[p].id].status = "approved")

\* ------------------------------------------------------------------- C2
\* C2: after all submissions return, the balance is the balance before plus
\* the amount of every identifier recorded as approved, each counted once.
C2_BalanceAppliedOnce ==
    NoneInFlight =>
        accounts["A1"].currentBalance = InitialBalance + SumAmounts(ApprovedOn("A1"))

\* ------------------------------------------------------------------- C3
\* C3: when the submissions all have different identifiers, currentBalance
\* never exceeds creditLimit.
DistinctIds ==
    \A p, q \in Procs :
        (p # q /\ pc[p] # "idle" /\ pc[q] # "idle") => SubId(p) # SubId(q)

C3_BalanceWithinCreditLimit ==
    DistinctIds => accounts["A1"].currentBalance <= accounts["A1"].creditLimit

\* ------------------------------------------------------------------- C4
\* C4: no submission reads the record of its identifier (in processTransaction
\* or in the handler) while another submission has written that record as
\* approved and has not yet added its amount to the balance.
HalfApplied(id) ==
    \E w \in Procs :
        /\ pc[w] = "h_create"
        /\ payload[w].id = id
        /\ ShouldUpdateBalance(result[w], hCard[w])

ReadsRecord(q) ==
    \/ pc[q] = "idle" /\ pc'[q] = "pt_find_tx"
    \/ pc[q] = "h_process" /\ pc'[q] = "h_find_tx"

C4_NoHalfAppliedObserved ==
    [][\A q \in Procs : ReadsRecord(q) => ~HalfApplied(payload'[q].id)]_vars

\* ------------------------------------------------------------------- C5
\* C5: a submission that finds a record of its identifier when it starts
\* returns that record's verdict, writes no record and changes no account.
C5_ReplayIsIdempotent ==
    [][\A p \in Procs :
          (Moves(p) /\ ptExisting[p] # Null) =>
              /\ transactions' = transactions
              /\ accounts' = accounts
              /\ pc'[p] = "done" =>
                     response'[p].approved = (ptExisting[p].status = "approved")]_vars

\* a replay is about to return approved although the card is no longer active
C5_Witness ==
    \E p \in Procs :
        /\ pc[p] = "h_find_tx"
        /\ ptExisting[p] # Null
        /\ hExisting[p] # Null
        /\ result[p].approved
        /\ cards[ptExisting[p].cardId].status # "active"

\* ------------------------------------------------------------------- C6
\* the card and the account the rule chain of submission p decides on
EngineCard(p) == ptCard[p]

EngineAccount(p) ==
    IF pc[p] = "pt_find_account"
    THEN IF ptAccount[p] = NullRef THEN Null ELSE Deref(ptAccount[p])
    ELSE IF ptCard[p] = Null THEN Null ELSE accounts[ptCard[p].accountId]

RuleOrder ==
    <<"card_not_found", "card_not_active", "account_not_found",
      "account_not_active", "insufficient_credit", "exceeds_card_limit">>

RuleFails(reason, card, account, amount) ==
    CASE reason = "card_not_found" -> card = Null
      [] reason = "card_not_active" -> card # Null /\ card.status # "active"
      [] reason = "account_not_found" -> card # Null /\ account = Null
      [] reason = "account_not_active" -> account # Null /\ account.status # "active"
      [] reason = "insufficient_credit" ->
             account # Null /\ account.currentBalance + amount > account.creditLimit
      [] reason = "exceeds_card_limit" ->
             /\ card # Null
             /\ card.spendingLimit # NoSpendingLimit
             /\ amount > card.spendingLimit

FirstFailing(card, account, amount) ==
    LET failing == {i \in DOMAIN RuleOrder : RuleFails(RuleOrder[i], card, account, amount)}
    IN IF failing = {} THEN NoReason
       ELSE RuleOrder[CHOOSE i \in failing : \A j \in failing : i <= j]

\* C6: the verdict of the rule chain is the first failing rule in the fixed
\* order, and it approves exactly when no rule fails.
C6_FirstFailingRule ==
    [][\A p \in Procs :
          Evaluates(p) =>
              LET first == FirstFailing(EngineCard(p), EngineAccount(p), payload[p].amount)
              IN /\ result'[p].approved = (first = NoReason)
                 /\ result'[p].reason = first]_vars

\* ------------------------------------------------------------------- C7
\* C7: the rule chain denies with insufficient_credit exactly when it reaches
\* the credit-limit rule and currentBalance + amount > creditLimit; a charge up
\* to the limit is approved when the card limit does not fail.
C7_StrictCreditLimit ==
    [][\A p \in Procs :
          Evaluates(p) =>
              LET account == EngineAccount(p)
                  amount == payload[p].amount
                  reached == /\ pc[p] = "pt_find_account"
                             /\ account # Null
                             /\ account.status = "active"
              IN /\ (result'[p].reason = "insufficient_credit") <=>
                        (reached /\ account.currentBalance + amount > account.creditLimit)
                 /\ ( /\ reached
                      /\ account.currentBalance + amount <= account.creditLimit
                      /\ ~RuleFails("exceeds_card_limit", EngineCard(p), account, amount) )
                        => result'[p].approved]_vars

\* an approved charge brought the balance to exactly the limit, and a charge
\* of one minor unit more is being denied
C7_Witness ==
    \E p \in Procs :
        /\ pc[p] = "h_process"
        /\ result[p].reason = "insufficient_credit"
        /\ payload[p].amount = 1
        /\ accounts["A1"].currentBalance = accounts["A1"].creditLimit
        /\ \E t \in ApprovedOn("A1") :
               accounts["A1"].currentBalance = InitialBalance + transactions[t].amount

\* ------------------------------------------------------------------- C8
\* C8: when rules 1-5 pass, a card with a spending limit set (0 included) is
\* denied with exceeds_card_limit if amount > spendingLimit and approved
\* otherwise; a card without a spending limit never gets exceeds_card_limit.
C8_CardLimit ==
    [][\A p \in Procs :
          Evaluates(p) =>
              LET card == EngineCard(p)
                  account == EngineAccount(p)
                  amount == payload[p].amount
                  passed == /\ pc[p] = "pt_find_account"
                            /\ account # Null
                            /\ account.status = "active"
                            /\ account.currentBalance + amount <= account.creditLimit
              IN /\ (passed /\ card.spendingLimit # NoSpendingLimit) =>
                        IF amount > card.spendingLimit
                        THEN ~result'[p].approved /\ result'[p].reason = "exceeds_card_limit"
                        ELSE result'[p].approved
                 /\ (card # Null /\ card.spendingLimit = NoSpendingLimit) =>
                        result'[p].reason # "exceeds_card_limit"]_vars

C10_RecordsWriteOnce ==
    [][\A t \in TxIds : transactions[t] # Null => transactions'[t] = transactions[t]]_vars

\* ------------------------------------------------------------------ C11
\* a submission has written an approved record on account a and has not yet
\* added its amount to the balance
BetweenWrites(a) ==
    \E p \in Procs :
        /\ pc[p] = "h_create"
        /\ ShouldUpdateBalance(result[p], hCard[p])
        /\ hCard[p].accountId = a

\* C11: whenever no submission on an account is between its record write and
\* its balance write, currentBalance is the initial balance plus the amounts
\* of the approved records of the account.
C11_BalanceIsSumOfApproved ==
    \A a \in AccountIds :
        (accounts[a] # Null /\ ~BetweenWrites(a)) =>
            accounts[a].currentBalance = InitialBalance + SumAmounts(ApprovedOn(a))

\* ------------------------------------------------------------------ C12
\* what the caller of handleTransactionWebhook got when the call threw
Threw(id) == [returned |-> FALSE, threw |-> TRUE, id |-> id]

\* a rejected `await` in handleTransactionWebhook or in processTransaction: no
\* try/catch on the way, so the call ends with the error
Throw(p) ==
    /\ response' = [response EXCEPT ![p] = Threw(payload[p].id)]
    /\ pc' = [pc EXCEPT ![p] = "failed"]
    /\ payload' = [payload EXCEPT ![p] = NoPayload]
    /\ ptExisting' = [ptExisting EXCEPT ![p] = Null]
    /\ ptCard' = [ptCard EXCEPT ![p] = Null]
    /\ ptAccount' = [ptAccount EXCEPT ![p] = NullRef]
    /\ result' = [result EXCEPT ![p] = NoResult]
    /\ hExisting' = [hExisting EXCEPT ![p] = Null]
    /\ hCard' = [hCard EXCEPT ![p] = Null]

\* the lookup a submission is suspended at rejects
LookupFails(p) ==
    /\ pc[p] \in {"pt_find_tx", "pt_find_card", "pt_find_account", "h_find_tx", "h_find_card"}
    /\ Throw(p)
    /\ UNCHANGED <<stores, now, updates, billing>>

\* `await db.transactions.create(transaction)` rejects and writes nothing
CreateFails(p) ==
    /\ \/ pc[p] = "h_find_tx" /\ hExisting[p] = Null /\ result[p].card # Undefined
       \/ pc[p] = "h_find_card"
    /\ Throw(p)
    /\ UNCHANGED <<stores, now, updates, billing>>

\* `await db.accounts.updateBalance(...)` rejects and writes nothing
UpdateBalanceFails(p) ==
    /\ pc[p] = "h_create"
    /\ ShouldUpdateBalance(result[p], hCard[p])
    /\ Throw(p)
    /\ UNCHANGED <<stores, now, updates, billing>>

Over(p) == pc[p] \in {"done", "failed", "rejected"}

\* submissions one after the other, each ending with a response or an error
SubmitAfter(p, pl) ==
    /\ \A q \in Procs : q < p => Over(q)
    /\ Submit(p, pl)

NextFail ==
    \/ \E p \in Procs : \E pl \in Payloads : SubmitAfter(p, pl)
    \/ \E p \in Procs : Step(p)
    \/ \E p \in Procs : LookupFails(p)
    \/ \E p \in Procs : CreateFails(p)
    \/ \E p \in Procs : UpdateBalanceFails(p)

SpecFail == Init /\ [][NextFail]_vars

\* the identifier of a submission that was made, ended or not
IdOf(p) == IF Over(p) THEN response[p].id ELSE payload[p].id

\* C12: after a submission failed on a collaborator call, no record exists
\* for its identifier unless another submission carried the same identifier,
\* and when every submission made has failed the balance is the initial one.
C12_FailureLeavesNoTrace ==
    /\ \A p \in Procs :
          (/\ pc[p] = "failed"
           /\ \A q \in Procs \ {p} : pc[q] = "idle" \/ IdOf(q) # response[p].id)
          => transactions[response[p].id] = Null
    /\ (\A p \in Procs : pc[p] \in {"idle", "failed"}) =>
          accounts["A1"].currentBalance = InitialBalance

\* ------------------------------------------------------------------ C13
\* C13: every record has a denial reason iff its status is denied: approved
\* records carry none and denied records carry one of the six reasons.
C13_ReasonIffDenied ==
    \A t \in TxIds :
        transactions[t] # Null =>
            /\ transactions[t].status \in {"approved", "denied"}
            /\ transactions[t].status = "approved" => transactions[t].denialReason = NoReason
            /\ transactions[t].status = "denied" => transactions[t].denialReason \in DenialReason

C13_Witness ==
    \E t, u \in TxIds :
        /\ transactions[t] # Null /\ transactions[u] # Null
        /\ transactions[t].status = "approved" /\ transactions[t].denialReason = NoReason
        /\ transactions[u].status = "denied"
        /\ transactions[u].denialReason = "exceeds_card_limit"

\* ------------------------------------------------------------------ C14
\* JSON values of a request body, by their `typeof`
Str(s) == [type |-> "string", value |-> s]
Num(n) == [type |-> "number", value |-> n]
Obj == [type |-> "object"]
Missing == [type |-> "undefined"]

\* `!v`
Falsy(v) ==
    \/ v.type = "undefined"
    \/ v.type = "string" /\ v.value = ""
    \/ v.type = "number" /\ v.value = 0

\* validateWebhookPayload(payload): the list of errors
ValidateWebhookPayload(b) ==
    (IF Falsy(b.id) \/ b.id.type # "string" THEN <<"id">> ELSE <<>>)
    \o (IF Falsy(b.card_id) \/ b.card_id.type # "string" THEN <<"card_id">> ELSE <<>>)
    \o (IF b.amount.type = "undefined" \/ b.amount.type # "number" THEN <<"amount">> ELSE <<>>)
    \o (IF Falsy(b.currency) \/ b.currency.type # "string" THEN <<"currency">> ELSE <<>>)
    \o (IF Falsy(b.merchant_data) \/ b.merchant_data.type # "object"
        THEN <<"merchant_data">> ELSE <<>>)

\* request bodies the webhook endpoint can receive
Bodies ==
    [id : {Str(t) : t \in TxIds} \cup {Str(""), Missing},
     card_id : {Str("C1"), Missing},
     amount : {Num(n) : n \in -MaxAmount..MaxAmount} \cup {Str("1"), Missing},
     currency : {Str("USD"), Missing},
     merchant_data : {Obj, Missing}]

\* `req.body as TransactionWebhookPayload`
AsPayload(b) == [id |-> b.id.value, card_id |-> b.card_id.value, amount |-> b.amount.value]

\* `res.json({ approved: false })` for a body that fails validation
Rejected == [returned |-> TRUE, approved |-> FALSE, rejected |-> TRUE]

\* POST /webhooks/transactions with body b, once the requests before it were
\* answered
Post(p, b) ==
    /\ \A q \in Procs : q < p => Over(q)
    /\ IF Len(ValidateWebhookPayload(b)) > 0
       THEN /\ pc[p] = "idle"
            /\ pc' = [pc EXCEPT ![p] = "rejected"]
            /\ response' = [response EXCEPT ![p] = Rejected]
            /\ UNCHANGED <<stores, now, updates, billing, payload, ptExisting, ptCard,
                           ptAccount, result, hExisting, hCard>>
       ELSE Submit(p, AsPayload(b))

NextWebhook ==
    \/ \E p \in Procs : \E b \in Bodies : Post(p, b)
    \/ \E p \in Procs : Step(p)

SpecWebhook == Init /\ [][NextWebhook]_vars

\* C14: every record persisted through the webhook path has amount >= 0 and
\* no accepted submission lowers the balance.
C14_AmountsNonNegative ==
    /\ \A t \in TxIds : transactions[t] # Null => transactions[t].amount >= 0
    /\ accounts["A1"].currentBalance >= InitialBalance

\* ------------------------------------------------------ statement generation
\* the clock counts billing months: subtractOneMonth(date)
SubtractOneMonth(date) == date - 1

\* addDays(date, days), a date inside the month after `date`
AddDays(date, days) == [date |-> date, plusDays |-> days]

DueDays == 25

MinimumFloor == 2500

\* mutant: the percentage is not scaled down to 2%
PercentagePaymentUnscaled(balance) == balance * 2

\* Math.ceil(balance * 0.02); the double product rounds to the exact ceiling
\* of balance / 50 for every integer balance below 2^50
PercentagePayment(balance) == (balance * 2 + 99) \div 100

\* mutant: the smaller of the percentage and the floor
CalculateMinimumPaymentMin(balance) ==
    IF balance <= 0 THEN 0
    ELSE IF balance < MinimumFloor THEN balance
    ELSE IF PercentagePayment(balance) < MinimumFloor
         THEN PercentagePayment(balance) ELSE MinimumFloor

CalculateMinimumPayment(balance) ==
    IF balance <= 0 THEN 0
    ELSE IF balance < MinimumFloor THEN balance
    ELSE IF PercentagePayment(balance) > MinimumFloor
         THEN PercentagePayment(balance) ELSE MinimumFloor

\* db.statements.findLatest(accountId): the account's statements sorted by
\* periodEnd, latest first (the sort is stable), and the first of them
StatementsFindLatest(accountId) ==
    LET I == {i \in 1..Len(statements) : statements[i].accountId = accountId}
    IN IF I = {} THEN Null
       ELSE statements[CHOOSE i \in I :
                \A j \in I : \/ statements[j].periodEnd < statements[i].periodEnd
                             \/ /\ statements[j].periodEnd = statements[i].periodEnd
                                /\ i <= j]

\* mutant: the period is open at its end
TransactionsFindByAccountAndPeriodOpenEnd(accountId, periodStart, periodEnd, status) ==
    {[id |-> t, amount |-> transactions[t].amount] :
        t \in {u \in TxIds : /\ transactions[u] # Null
                             /\ transactions[u].accountId = accountId
                             /\ transactions[u].createdAt >= periodStart
                             /\ transactions[u].createdAt < periodEnd
                             /\ transactions[u].status = status}}

\* db.transactions.findByAccountAndPeriod(accountId, periodStart, periodEnd, status)
TransactionsFindByAccountAndPeriod(accountId, periodStart, periodEnd, status) ==
    {[id |-> t, amount |-> transactions[t].amount] :
        t \in {u \in TxIds : /\ transactions[u] # Null
                             /\ transactions[u].accountId = accountId
                             /\ transactions[u].createdAt >= periodStart
                             /\ transactions[u].createdAt <= periodEnd
                             /\ transactions[u].status = status}}

\* transactions.reduce((sum, tx) => sum + tx.amount, 0)
RECURSIVE TotalSpent(_)
TotalSpent(found) ==
    IF found = {} THEN 0
    ELSE LET tx == CHOOSE x \in found : TRUE
         IN tx.amount + TotalSpent(found \ {tx})

\* the Statement generateStatementForAccount builds (its random id left out)
NewStatement(accountId, periodStart, periodEnd, lastStatement, found) ==
    LET openingBalance == IF lastStatement = Null THEN 0 ELSE lastStatement.closingBalance
        totalSpent == TotalSpent(found)
        closingBalance == openingBalance + totalSpent
    IN [accountId |-> accountId,
        periodStart |-> periodStart,
        periodEnd |-> periodEnd,
        openingBalance |-> openingBalance,
        closingBalance |-> closingBalance,
        totalSpent |-> totalSpent,
        minimumPayment |-> CalculateMinimumPayment(closingBalance),
        dueDate |-> AddDays(periodEnd, DueDays),
        createdAt |-> now]

\* mutant: the statement replaces the statements kept so far
StatementsCreateReplacing(statement) == <<statement>>

\* db.statements.create(statement)
StatementsCreate(statement) == Append(statements, statement)

\* the accounts in the order they were inserted
AccountOrder == <<"A1", "A2">>

\* db.accounts.findAll({ status: 'active' }), as the list of ids
ActiveAccounts ==
    SelectSeq(AccountOrder, LAMBDA a : accounts[a] # Null /\ accounts[a].status = "active")

\* generateStatementForAccount(accountId, periodStart, periodEnd) starts and
\* suspends at `await db.statements.findLatest(accountId)`; todo are the
\* accounts the loop of generateMonthlyStatements has left
CallGenerate(accountId, periodStart, periodEnd, todo) ==
    gen' = [pc |-> "g_find_latest",
            accountId |-> accountId,
            periodStart |-> periodStart,
            periodEnd |-> periodEnd,
            lastStatement |-> StatementsFindLatest(accountId),
            found |-> {},
            todo |-> todo]

\* generateStatementForAccount(accountId, periodStart, periodEnd) is called
GenerateStatementForAccount(accountId, periodStart, periodEnd) ==
    /\ gen = NoCall
    /\ Len(statements) < MaxStatements
    /\ CallGenerate(accountId, periodStart, periodEnd, <<>>)
    /\ UNCHANGED <<stores, now, pc, locals, updates, statements>>

\* generateMonthlyStatements() is called and suspends at
\* `await db.accounts.findAll({ status: 'active' })`
GenerateMonthlyStatements ==
    /\ gen = NoCall
    /\ Len(statements) + Len(ActiveAccounts) <= MaxStatements
    /\ gen' = [pc |-> "m_find_all",
               periodStart |-> SubtractOneMonth(now),
               periodEnd |-> now,
               todo |-> ActiveAccounts]
    /\ UNCHANGED <<stores, now, pc, locals, updates, statements>>

\* generateMonthlyStatements resumes with the active accounts and enters its loop
MAfterFindAll ==
    /\ gen.pc = "m_find_all"
    /\ IF gen.todo = <<>>
       THEN gen' = NoCall
       ELSE CallGenerate(Head(gen.todo), gen.periodStart, gen.periodEnd, Tail(gen.todo))
    /\ UNCHANGED <<stores, now, pc, locals, updates, statements>>

\* generateStatementForAccount resumes with lastStatement and suspends at
\* `await db.transactions.findByAccountAndPeriod(...)`
GAfterFindLatest ==
    /\ gen.pc = "g_find_latest"
    /\ gen' = [gen EXCEPT !.pc = "g_find_tx",
                          !.found = TransactionsFindByAccountAndPeriod(
                                        gen.accountId, gen.periodStart, gen.periodEnd,
                                        "approved")]
    /\ UNCHANGED <<stores, now, pc, locals, updates, statements>>

\* generateStatementForAccount resumes with the transactions, builds the
\* statement and suspends at `await db.statements.create(statement)`
GAfterFindTx ==
    /\ gen.pc = "g_find_tx"
    /\ statements' = StatementsCreate(NewStatement(gen.accountId, gen.periodStart,
                                                   gen.periodEnd, gen.lastStatement,
                                                   gen.found))
    /\ gen' = [gen EXCEPT !.pc = "g_create"]
    /\ UNCHANGED <<stores, now, pc, locals, updates>>

\* generateStatementForAccount returns; the loop of generateMonthlyStatements
\* goes on with the next account
GAfterCreate ==
    /\ gen.pc = "g_create"
    /\ IF gen.todo = <<>>
       THEN gen' = NoCall
       ELSE CallGenerate(Head(gen.todo), gen.periodStart, gen.periodEnd, Tail(gen.todo))
    /\ UNCHANGED <<stores, now, pc, locals, updates, statements>>

\* the balance at which 2% of the balance reaches the floor
PercentagePivot == (MinimumFloor * 100) \div 2

\* closing balances of the statement an account already has
PriorClosings ==
    UNION {(b - Window)..(b + Window) : b \in {0, MinimumFloor, PercentagePivot}}

\* the statement of account A1 for the month before the clock starts, closing
\* at b with nothing spent in the month
PriorStatement(b) ==
    [accountId |-> "A1",
     periodStart |-> SubtractOneMonth(SubtractOneMonth(0)),
     periodEnd |-> SubtractOneMonth(0),
     openingBalance |-> b,
     closingBalance |-> b,
     totalSpent |-> 0,
     minimumPayment |-> CalculateMinimumPayment(b),
     dueDate |-> AddDays(SubtractOneMonth(0), DueDays),
     createdAt |-> SubtractOneMonth(0)]

\* two accounts with a card each, no record, and the statements given
InitTwoAccounts(stmts) ==
    /\ accounts = [a \in AccountIds |->
                     [creditLimit |-> IF a = "A1" THEN CreditLimit ELSE CreditLimit - 1,
                      currentBalance |-> InitialBalance,
                      status |-> "active"]]
    /\ cards = [c \in CardIds |->
                  IF c = "C1"
                  THEN [accountId |-> "A1", status |-> "active",
                        spendingLimit |-> NoSpendingLimit]
                  ELSE IF c = "C2"
                  THEN [accountId |-> "A2", status |-> "active",
                        spendingLimit |-> NoSpendingLimit]
                  ELSE Null]
    /\ transactions = [t \in TxIds |-> Null]
    /\ now = 0
    /\ pc = [p \in Procs |-> "idle"]
    /\ payload = [p \in Procs |-> NoPayload]
    /\ ptExisting = [p \in Procs |-> Null]
    /\ ptCard = [p \in Procs |-> Null]
    /\ ptAccount = [p \in Procs |-> NullRef]
    /\ result = [p \in Procs |-> NoResult]
    /\ hExisting = [p \in Procs |-> Null]
    /\ hCard = [p \in Procs |-> Null]
    /\ response = [p \in Procs |-> NotReturned]
    /\ updates = 0
    /\ statements = stmts
    /\ gen = NoCall

InitStmt == InitTwoAccounts(<<>>)

\* no submission and no statement generation is running
Quiet == gen = NoCall /\ \A p \in Procs : pc[p] = "idle" \/ Over(p)

\* no statement was generated since the clock started
NoneGenerated == gen = NoCall /\ \A i \in 1..Len(statements) : statements[i].createdAt < 0

\* T1 is charged to card C1 and T2 to card C1 or C2
StmtPayloads ==
    {pl \in Payloads : pl.card_id = "C1" \/ (pl.id = "T2" /\ pl.card_id = "C2")}

Periods == {per \in (0..MaxTime) \X (0..MaxTime) : per[1] <= per[2]}

\* the generator's steps after its call
GStep ==
    \/ MAfterFindAll
    \/ GAfterFindLatest
    \/ GAfterFindTx
    \/ GAfterCreate

\* submissions one after the other with the clock ticking between them, then
\* statements of A1 for any period and monthly runs, one after the other
NextStmt ==
    \/ \E p \in Procs : \E pl \in StmtPayloads : NoneGenerated /\ SubmitAfter(p, pl)
    \/ \E p \in Procs : Step(p)
    \/ Quiet /\ Tick
    \/ \E per \in Periods : Quiet /\ GenerateStatementForAccount("A1", per[1], per[2])
    \/ Quiet /\ GenerateMonthlyStatements
    \/ GStep

SpecStmt == InitStmt /\ [][NextStmt]_vars

\* account A1 has a statement closing near one of the thresholds of the
\* minimum payment
InitMinPay == \E b \in PriorClosings : InitTwoAccounts(<<PriorStatement(b)>>)

MinPayPayloads == {pl \in Payloads : pl.card_id = "C1"}

\* submissions on account A1 one after the other, then statements of A1
NextMinPay ==
    \/ \E p \in Procs : \E pl \in MinPayPayloads : NoneGenerated /\ SubmitAfter(p, pl)
    \/ \E p \in Procs : Step(p)
    \/ Quiet /\ Tick
    \/ \E per \in Periods : Quiet /\ GenerateStatementForAccount("A1", per[1], per[2])
    \/ GAfterFindLatest
    \/ GAfterFindTx
    \/ GAfterCreate

SpecMinPay == InitMinPay /\ [][NextMinPay]_vars

\* ------------------------------------------------------------------ C15
\* the generator's step that creates the statement
CreatesStatement == gen.pc = "g_find_tx" /\ gen'.pc = "g_create"

\* closing balances of the statements of account a with the latest periodEnd
LatestClosings(a) ==
    {statements[i].closingBalance :
        i \in {k \in 1..Len(statements) :
                 /\ statements[k].accountId = a
                 /\ \A j \in 1..Len(statements) :
                       statements[j].accountId = a =>
                           statements[j].periodEnd <= statements[k].periodEnd}}

\* the approved records of account a created in [periodStart, periodEnd]
ApprovedInPeriod(a, periodStart, periodEnd) ==
    {t \in ApprovedOn(a) : /\ periodStart <= transactions[t].createdAt
                           /\ transactions[t].createdAt <= periodEnd}

\* C15: the statement generateStatementForAccount(accountId, periodStart,
\* periodEnd) creates opens at the closing balance of the account's latest
\* statement (zero without one), its totalSpent is the sum of the amounts of
\* exactly the account's approved records created in [periodStart, periodEnd],
\* and closingBalance = openingBalance + totalSpent.
C15_StatementContents ==
    [][CreatesStatement =>
         LET s == statements'[Len(statements')]
         IN /\ Len(statements') = Len(statements) + 1
            /\ s.accountId = gen.accountId
            /\ s.periodStart = gen.periodStart /\ s.periodEnd = gen.periodEnd
            /\ IF LatestClosings(s.accountId) = {}
               THEN s.openingBalance = 0
               ELSE s.openingBalance \in LatestClosings(s.accountId)
            /\ s.totalSpent =
                   SumAmounts(ApprovedInPeriod(s.accountId, s.periodStart, s.periodEnd))
            /\ s.closingBalance = s.openingBalance + s.totalSpent]_vars

\* a second statement of A1 opens at the first one's closing balance and sums
\* an approved record while a denied record of A1 and an approved record of
\* A2 lie in its period
C15_Witness ==
    /\ Len(statements) = 2
    /\ statements[1].accountId = "A1" /\ statements[2].accountId = "A1"
    /\ statements[1].closingBalance > 0
    /\ statements[2].openingBalance = statements[1].closingBalance
    /\ statements[2].totalSpent > 0
    /\ \E t \in TxIds :
          /\ transactions[t] # Null
          /\ transactions[t].createdAt >= statements[2].periodStart
          /\ transactions[t].createdAt <= statements[2].periodEnd
          /\ \/ transactions[t].accountId = "A1" /\ transactions[t].status = "denied"
             \/ transactions[t].accountId = "A2" /\ transactions[t].status = "approved"

\* ------------------------------------------------------------------ C16
\* the least integer not below b * 2 / 100
TwoPercentCeiling(b) ==
    LET q == (b * 2) \div 100
    IN IF q * 100 = b * 2 THEN q ELSE q + 1

\* C16: a statement's minimum payment is 0 when closingBalance <= 0, the
\* closing balance when 0 < closingBalance < 2500, and
\* max(ceil(closingBalance * 2 / 100), 2500) when closingBalance >= 2500.
C16_MinimumPaymentRule ==
    \A i \in 1..Len(statements) :
        LET b == statements[i].closingBalance
            m == statements[i].minimumPayment
        IN /\ b <= 0 => m = 0
           /\ (0 < b /\ b < 2500) => m = b
           /\ b >= 2500 =>
                 m = IF TwoPercentCeiling(b) > 2500 THEN TwoPercentCeiling(b) ELSE 2500

\* a generated statement closes at exactly 2500 and asks for 2500, after a
\* statement below the floor that asked for its full balance
C16_Witness ==
    /\ Len(statements) = 2
    /\ statements[1].closingBalance = 2499 /\ statements[1].minimumPayment = 2499
    /\ statements[2].createdAt >= 0
    /\ statements[2].closingBalance = 2500 /\ statements[2].minimumPayment = 2500

\* ------------------------------------------------------------------ C20
\* C20: for closing balances b >= 0 the minimum payment lies in [0, b], and a
\* statement closing at no less than another asks for no less.
C20_MinimumPaymentBounded ==
    \A i \in 1..Len(statements) :
        statements[i].closingBalance >= 0 =>
            /\ 0 <= statements[i].minimumPayment
            /\ statements[i].minimumPayment <= statements[i].closingBalance
            /\ \A j \in 1..Len(statements) :
                  (/\ statements[j].closingBalance >= 0
                   /\ statements[i].closingBalance <= statements[j].closingBalance)
                  => statements[i].minimumPayment <= statements[j].minimumPayment

\* the balance grows past the point where 2% exceeds the floor and the
\* minimum payment grows with it
C20_Witness ==
    /\ Len(statements) = 2
    /\ statements[1].closingBalance = PercentagePivot
    /\ statements[2].closingBalance > statements[1].closingBalance
    /\ statements[2].minimumPayment > statements[1].minimumPayment
    /\ statements[2].minimumPayment <= statements[2].closingBalance

\* ------------------------------------------------------------------ C17
SamePeriod(s, t) ==
    /\ s.accountId = t.accountId
    /\ s.periodStart = t.periodStart
    /\ s.periodEnd = t.periodEnd

\* C17 as stated: there is at most one statement per (account, billing period).
C17_OnePerAccountPeriod ==
    \A i, j \in 1..Len(statements) :
        i < j => ~SamePeriod(statements[i], statements[j])

\* C17 as amended: a statement once created is never modified or removed, and
\* the statements store changes only by a generateStatementForAccount call
\* adding one statement for its own (account, period), whether or not the
\* account already has a statement for that period.
C17_StatementsAppendOnly ==
    [][/\ \A i \in 1..Len(statements) :
             i <= Len(statements') /\ statements'[i] = statements[i]
       /\ statements' # statements =>
             /\ CreatesStatement
             /\ Len(statements') = Len(statements) + 1
             /\ statements'[Len(statements')].accountId = gen.accountId
             /\ statements'[Len(statements')].periodStart = gen.periodStart
             /\ statements'[Len(statements')].periodEnd = gen.periodEnd]_vars

\* a second statement was created for an (account, period) that has one, and
\* the first is kept
C17_Witness ==
    /\ Len(statements) = 2
    /\ gen = NoCall
    /\ SamePeriod(statements[1], statements[2])
    /\ statements[1].createdAt >= 0

\* ------------------------------------------------------------------ C18
\* p's step belongs to its processTransaction call
InEngine(p) ==
    /\ pc[p] \in {"idle", "pt_find_tx", "pt_find_card", "pt_find_account"}
    /\ Moves(p)

\* no record was written and no balance was changed
StoresUntouched ==
    /\ \A t \in TxIds : transactions[t] = Null
    /\ \A a \in AccountIds :
          accounts[a] # Null => accounts[a].currentBalance = InitialBalance

AccountsPayloads ==
    {pl \in Payloads : \/ pl.id = "T1" /\ pl.card_id = "C1"
                       \/ pl.id = "T2" /\ pl.card_id \in {"C1", "C2"}}

NextAccounts ==
    \/ \E p \in Procs : \E pl \in AccountsPayloads : Submit(p, pl)
    \/ \E p \in Procs : Step(p)

SpecAccounts == InitTwoAccounts(<<>>) /\ [][NextAccounts]_vars

\* the account a submission in flight charges
AccountOf(p) == cards[payload[p].card_id].accountId

\* the submissions made are over and carried different identifiers on
\* different accounts
AllOverOnDistinctAccounts ==
    /\ \A p \in Procs : pc[p] \in {"idle", "done"}
    /\ \A p, q \in Procs :
          (p # q /\ pc[p] = "done" /\ pc[q] = "done") =>
              /\ response[p].id # response[q].id
              /\ transactions[response[p].id].accountId
                     # transactions[response[q].id].accountId

\* what a submission alone decides on the account as it started
AloneApproved(record) ==
    InitialBalance + record.amount <= accounts[record.accountId].creditLimit

\* C19: a step of a submission on account A leaves the other accounts'
\* balances, every card and every record of another identifier unchanged;
\* and when submissions with different identifiers on different accounts are
\* over, every record, response and balance is what its submission alone
\* produces.
C19_SubmissionsIndependent ==
    [][/\ \A p \in Procs :
             (InFlight(p) /\ Moves(p)) =>
                 /\ cards' = cards
                 /\ \A a \in AccountIds \ {AccountOf(p)} : accounts'[a] = accounts[a]
                 /\ \A t \in TxIds \ {payload[p].id} : transactions'[t] = transactions[t]
       /\ AllOverOnDistinctAccounts' =>
             \A p \in Procs :
                 pc'[p] = "done" =>
                     LET record == transactions'[response'[p].id]
                     IN /\ record.status =
                               IF AloneApproved(record) THEN "approved" ELSE "denied"
                        /\ response'[p].approved = AloneApproved(record)
                        /\ accounts'[record.accountId].currentBalance =
                               InitialBalance
                                 + (IF AloneApproved(record) THEN record.amount ELSE 0)]_vars

\* T1 on account A1 and T2 on account A2 are both over and both approved
C19_Witness ==
    /\ \A p \in Procs : pc[p] = "done"
    /\ AllOverOnDistinctAccounts
    /\ \A t \in TxIds : transactions[t] # Null /\ transactions[t].status = "approved"
    /\ \A a \in AccountIds : accounts[a].currentBalance > InitialBalance

====
